---- MODULE Spec2Model ----
(***************************************************************************)
(* State-machine model of fastapi_webpage: the WebPage context manager and *)
(* renderer (webpage.py), the three registered error handlers              *)
(* (error_middleware.py) and the urlx_for template helper.                 *)
(*                                                                         *)
(* Python values are tagged records [k |-> <type tag>, v |-> <payload>].   *)
(* A dict is a function from a finite set of string keys to values.        *)
(* Header values and URLs are sequences of one-character strings.          *)
(***************************************************************************)
EXTENDS Integers, Sequences, FiniteSets, TLC

VARIABLES
    webpage_context,   \* self._webpage_context
    pre_context,       \* self._pre_context
    default_context,   \* the dict object that is the default of __call__'s context
    next_id,           \* identity of the next Request object
    resp,              \* the last operation: its inputs and what it produced
    held,              \* the dict the template response before resp was built in
    accumulated,       \* the constructor's keywords merged with the accepted patches
    url                \* the call of urlx_for under study

vars == <<webpage_context, pre_context, default_context, next_id, resp, held,
          accumulated, url>>

-----------------------------------------------------------------------------
(* Bounds of the model *)

\* number of Request objects alive at a time; their identities are reused in turn
MaxRequests == 2

-----------------------------------------------------------------------------
(* Python values *)

PyStr(s) == [k |-> "str", v |-> s]
PyInt(n) == [k |-> "int", v |-> n]
PyNone == [k |-> "NoneType", v |-> "None"]
\* a starlette Request object, identified by the request it belongs to
RequestObj(id) == [k |-> "Request", v |-> id]
\* the object self._webpage_context itself (the dict is passed by reference)
WebpageContextRef == [k |-> "dictref", v |-> "self._webpage_context"]
\* an already built starlette Response returned by a handler
ResponseObj(n) == [k |-> "Response", v |-> n]
\* a Python list (not a dict, not a Response)
PyList(n) == [k |-> "list", v |-> n]

EmptyDict == [x \in {} |-> PyNone]

\* a dict object as a value: the mapping it holds
PyDict(d) == [k |-> "dict", v |-> d]
\* match value: case dict()
IsDict(value) == value.k = "dict"
\* match value: case Response()
IsResponse(value) == value.k = "Response"

\* d.update(p): keys of p overwrite, the other keys of d stay
DictUpdate(d, p) ==
    [key \in DOMAIN d \cup DOMAIN p |-> IF key \in DOMAIN p THEN p[key] ELSE d[key]]

\* the dict literal {key: value}
Entry(key, value) == [x \in {key} |-> value]

\* bool(value) for the values a keyword argument takes here
Truthy(value) ==
    CASE value.k = "NoneType" -> FALSE
      [] value.k = "int" -> value.v # 0
      [] value.k = "dict" -> DOMAIN value.v # {}
      [] OTHER -> TRUE

\* kargs.get(name): None when the keyword is absent
KargsGet(kargs, name) == IF name \in DOMAIN kargs THEN kargs[name] ELSE PyNone

-----------------------------------------------------------------------------
(* Character sequences *)

s_application_json ==
    <<"a","p","p","l","i","c","a","t","i","o","n","/","j","s","o","n">>
s_text_html == <<"t","e","x","t","/","h","t","m","l">>
s_empty == << >>

\* needle in hay, for Python str
Contains(needle, hay) ==
    \E i \in 0..(Len(hay) - Len(needle)) :
        SubSeq(hay, i + 1, i + Len(needle)) = needle

\* Headers.get(name, default)
HeadersGet(headers, name, default) ==
    IF name \in DOMAIN headers THEN headers[name] ELSE default

-----------------------------------------------------------------------------
(* Program constants *)

HTTP_200_OK == 200
HTTP_422_UNPROCESSABLE_ENTITY == 422
HTTP_500_INTERNAL_SERVER_ERROR == 500
\* default of register_error_handlers(error_templ_file=...)
error_templ_file == "error.jinja2"
\* http.HTTPStatus(500).phrase, the detail of an HTTPException raised without one
InternalServerErrorPhrase == PyStr("Internal Server Error")

-----------------------------------------------------------------------------
(* Inputs *)

\* values of the accept header a request may carry
AcceptValues ==
    { s_empty, s_application_json, s_text_html,
      s_text_html \o <<",">> \o s_application_json \o <<";","q","=","0",".","9">>,
      SubSeq(s_application_json, 1, 15) }

\* the headers of a request that fails: accept present or absent
RequestHeaders == {EmptyDict} \cup {Entry("accept", a) : a \in AcceptValues}
\* the headers of a request routed to a decorated handler
PageRequestHeaders == {EmptyDict, Entry("accept", s_application_json)}
\* the headers of a request rendered directly
CallRequestHeaders == {Entry("accept", s_text_html)}

NoRequest == [id |-> 0, headers |-> EmptyDict]

\* keyword arguments WebPage(...) may be constructed with
GlobalContexts == {EmptyDict, Entry("title", PyStr("sv1"))}

\* arguments of the two update methods: dicts, and values that are no dict
SitePatches ==
    { PyDict(Entry("title", PyStr("sv2"))), PyDict(Entry("theme", PyStr("sv1"))),
      PyDict(EmptyDict), PyList(1) }
PrePatches ==
    { PyDict([x \in {"detail", "status_code"} |-> PyStr("pv1")]),
      PyDict([x \in {"request", "webpage"} |-> PyStr("pv1")]),
      PyNone }

\* context dicts a caller passes to WebPage.__call__ / a handler returns
CallerContexts ==
    { EmptyDict, Entry("detail", PyStr("cv1")),
      [x \in {"request", "webpage"} |-> PyStr("cv1")],
      [x \in {"request", "webpage", "detail"} |-> PyStr("cv1")] }

\* **kargs of WebPage.__call__
CallKargs ==
    { EmptyDict,
      Entry("status_code", PyStr("201")),
      Entry("status_code", PyInt(0)),
      [x \in {"status_code", "headers"} |->
          IF x = "status_code" THEN PyInt(201)
          ELSE PyDict(Entry("cache-control", PyStr("no-store")))] }

\* what a decorated handler returns
HandlerResults ==
    {PyDict(d) : d \in CallerContexts} \cup {ResponseObj(1), PyList(1), PyNone}
\* names of the decorated handlers (func.__name__)
HandlerNames == {"index"}
PageTemplates == {"index.jinja2"}
PageStatusCodes == {HTTP_200_OK}
\* readings of time.time()
Timestamps == {PyStr("1700000000")}

\* failures a route may raise on its own
NoExc == [type |-> "none", status_code |-> 0, detail |-> PyNone, origin |-> "none"]
RouteExceptions ==
    { [type |-> "HTTPException", status_code |-> 404, detail |-> PyStr("not found"),
       origin |-> "route"],
      [type |-> "HTTPException", status_code |-> 403, detail |-> PyStr("forbidden"),
       origin |-> "route"],
      [type |-> "RequestValidationError", status_code |-> 0, detail |-> PyList(1),
       origin |-> "route"],
      [type |-> "Exception", status_code |-> 0, detail |-> PyStr("boom"),
       origin |-> "route"],
      [type |-> "Exception", status_code |-> 0, detail |-> PyStr("bang"),
       origin |-> "route"] }

-----------------------------------------------------------------------------
(* State *)

NoResp ==
    [op |-> "none", request |-> NoRequest, outcome |-> "none", status_code |-> 0,
     content |-> EmptyDict, template |-> "", context |-> EmptyDict,
     context_obj |-> "none", base |-> EmptyDict, arg |-> PyNone, exc |-> NoExc,
     headers |-> EmptyDict, func |-> ""]

NoHeld == "none"

NoUrl == [state |-> "none"]

\* an exception is on its way to the handler registered for its class
Raised ==
    /\ resp.outcome = "raise"
    /\ resp.exc.type \in {"HTTPException", "RequestValidationError", "Exception"}

\* the Request object of the next request
NewRequest(headers) == [id |-> next_id, headers |-> headers]

\* what follows every operation: resp is replaced, the template response it
\* held stays referenced, and a request that was taken uses up its identity
Produce(r, new_request) ==
    /\ resp' = r
    /\ held' = IF resp.outcome = "TemplateResponse" THEN resp.context_obj ELSE held
    /\ next_id' = IF new_request THEN (next_id % MaxRequests) + 1 ELSE next_id

\* WebPage.__init__(template_directory, **global_context)
WebPageInit(global_context) ==
    /\ webpage_context = DictUpdate(EmptyDict, global_context)
    /\ pre_context = EmptyDict

Init ==
    /\ \E global_context \in GlobalContexts :
          /\ WebPageInit(global_context)
          /\ accumulated = global_context
    /\ default_context = EmptyDict
    /\ next_id = 1
    /\ resp = NoResp
    /\ held = NoHeld
    /\ url = NoUrl

-----------------------------------------------------------------------------
(* WebPage: the two update methods *)

\* an update method that replaces the dict by the patch
UpdateResultReplace(target, value) ==
    IF IsDict(value)
    THEN [dict |-> value.v, outcome |-> "return"]
    ELSE [dict |-> target, outcome |-> "raise"]

\* match value: case dict(): self._x.update(value); case _: raise ValueError
UpdateResult(target, value) ==
    IF IsDict(value)
    THEN [dict |-> DictUpdate(target, value.v), outcome |-> "return"]
    ELSE [dict |-> target, outcome |-> "raise"]

ValueError ==
    [type |-> "ValueError", status_code |-> 0,
     detail |-> PyStr("The value need to be a dict"), origin |-> "update"]

\* acc with a patch laid over it: a key of the patch takes the patch's value
MergedWith(acc, patch) ==
    [key \in DOMAIN acc \cup DOMAIN patch |->
        IF key \notin DOMAIN patch THEN acc[key] ELSE patch[key]]

pre_context_update(value) ==
    /\ ~Raised
    /\ LET r == UpdateResult(pre_context, value) IN
          /\ pre_context' = r.dict
          /\ Produce([NoResp EXCEPT !.op = "pre_context_update", !.arg = value,
                                    !.outcome = r.outcome,
                                    !.exc = IF r.outcome = "raise" THEN ValueError ELSE NoExc],
                     FALSE)
    /\ UNCHANGED <<webpage_context, default_context, accumulated, url>>

webpage_context_update(value) ==
    /\ ~Raised
    /\ LET r == UpdateResult(webpage_context, value) IN
          /\ webpage_context' = r.dict
          /\ Produce([NoResp EXCEPT !.op = "webpage_context_update", !.arg = value,
                                    !.outcome = r.outcome,
                                    !.exc = IF r.outcome = "raise" THEN ValueError ELSE NoExc],
                     FALSE)
    /\ accumulated' = IF value.k = "dict" THEN MergedWith(accumulated, value.v)
                      ELSE accumulated
    /\ UNCHANGED <<pre_context, default_context, url>>

-----------------------------------------------------------------------------
(* WebPage.__call__ *)

\* a __call__ that lays pre_context over the context last
CallContextPreLast(request, base) ==
    DictUpdate(DictUpdate(DictUpdate(base, Entry("request", RequestObj(request.id))),
                          Entry("webpage", WebpageContextRef)),
               pre_context)

\* the context __call__ hands to TemplateResponse, built in the dict whose
\* contents are base: request, then pre_context, then webpage
CallContext(request, base) ==
    DictUpdate(DictUpdate(DictUpdate(base, Entry("request", RequestObj(request.id))),
                          pre_context),
               Entry("webpage", WebpageContextRef))

\* wp_response.status_code after lines 194-195 (TemplateResponse defaults to 200)
CallStatus(kargs) ==
    IF Truthy(KargsGet(kargs, "status_code")) /\ KargsGet(kargs, "status_code").k = "int"
    THEN KargsGet(kargs, "status_code").v
    ELSE HTTP_200_OK

\* wp_response.headers after lines 196-197
CallHeaders(kargs) ==
    IF Truthy(KargsGet(kargs, "headers")) /\ IsDict(KargsGet(kargs, "headers"))
    THEN DictUpdate(EmptyDict, KargsGet(kargs, "headers").v)
    ELSE EmptyDict

\* the response of self(template_file, request, context, **kargs), where base is
\* the contents of the dict object bound to the parameter context
Call(op, template_file, request, context_obj, base, kargs) ==
    [NoResp EXCEPT !.op = op, !.request = request, !.outcome = "TemplateResponse",
                   !.template = template_file, !.context = CallContext(request, base),
                   !.context_obj = context_obj, !.base = base,
                   !.status_code = CallStatus(kargs), !.headers = CallHeaders(kargs)]

\* the contents of the dict bound to context when the caller passes none: the
\* default argument, the one dict object made when __call__ was defined
DefaultBase == default_context

\* webpage(template_file, request, **kargs)
CallWithoutContext ==
    /\ ~Raised
    /\ \E headers \in CallRequestHeaders, template_file \in PageTemplates, kargs \in CallKargs :
          LET r == Call("__call__", template_file, NewRequest(headers), "default",
                        DefaultBase, kargs)
          IN /\ Produce([r EXCEPT !.arg = PyNone], TRUE)
             /\ default_context' = r.context
    /\ UNCHANGED <<webpage_context, pre_context, accumulated, url>>

\* webpage(template_file, request, context, **kargs) with the caller's own dict
CallWithContext ==
    /\ ~Raised
    /\ \E headers \in CallRequestHeaders, template_file \in PageTemplates,
          context \in CallerContexts, kargs \in CallKargs :
          LET r == Call("__call__", template_file, NewRequest(headers), "own", context, kargs)
          IN Produce([r EXCEPT !.arg = PyDict(context)], TRUE)
    /\ UNCHANGED <<webpage_context, pre_context, default_context, accumulated, url>>

-----------------------------------------------------------------------------
(* WebPage.page: the decorator's wrap *)

\* detail of the HTTPException raised for a result that is no dict: the
\* message, func.__name__ and func.__code__
Diagnostic(func) == [k |-> "error_msgs", v |-> func]

\* request, webpage and css_timestamp as wrap injects them
Injected(request, now) ==
    [x \in {"request", "webpage", "css_timestamp"} |->
        CASE x = "request" -> RequestObj(request.id)
          [] x = "webpage" -> WebpageContextRef
          [] OTHER -> now]

\* a wrap that lays pre_context over the result before the injected keys
WrapContextPreFirst(request, result, now) ==
    DictUpdate(DictUpdate(result, pre_context), Injected(request, now))

\* the context wrap hands to TemplateResponse, built in the dict the handler
\* returned: the injected keys, then pre_context
WrapContext(request, result, now) ==
    DictUpdate(DictUpdate(result, Injected(request, now)), pre_context)

\* a wrap that renders whatever is no Response
WrapRendersAnything(func, template_file, status_code, request, result, now) ==
    LET r == [NoResp EXCEPT !.op = "page", !.func = func, !.request = request,
                            !.arg = result]
    IN  IF IsResponse(result)
        THEN [r EXCEPT !.outcome = "passthrough", !.content = Entry("response", result)]
        ELSE [r EXCEPT !.outcome = "TemplateResponse", !.template = template_file,
                       !.context = WrapContext(request,
                                       IF IsDict(result) THEN result.v ELSE EmptyDict, now),
                       !.context_obj = "own", !.status_code = status_code]

\* wrap(**kargs) once request is known to be there: the match on the (awaited)
\* result of func(**kargs)
Wrap(func, template_file, status_code, request, result, now) ==
    LET r == [NoResp EXCEPT !.op = "page", !.func = func, !.request = request,
                            !.arg = result]
    IN  CASE IsResponse(result) ->
                [r EXCEPT !.outcome = "passthrough", !.content = Entry("response", result)]
          [] IsDict(result) ->
                [r EXCEPT !.outcome = "TemplateResponse", !.template = template_file,
                          !.context = WrapContext(request, result.v, now),
                          !.context_obj = "own", !.base = result.v,
                          !.status_code = status_code]
          [] OTHER ->
                [r EXCEPT !.outcome = "raise",
                          !.exc = [type |-> "HTTPException",
                                   status_code |-> HTTP_500_INTERNAL_SERVER_ERROR,
                                   detail |-> Diagnostic(func), origin |-> "wrap"]]

\* wrap(**kargs) with no request among kargs: func is not called
WrapNoRequest(func, request) ==
    [NoResp EXCEPT !.op = "page", !.func = func, !.request = request,
                   !.arg = PyStr("no request"), !.outcome = "raise",
                   !.exc = [type |-> "HTTPException",
                            status_code |-> HTTP_500_INTERNAL_SERVER_ERROR,
                            detail |-> InternalServerErrorPhrase, origin |-> "wrap"]]

\* a request routed to a decorated handler that declares request
PageWithRequest ==
    /\ ~Raised
    /\ \E headers \in PageRequestHeaders, func \in HandlerNames,
          template_file \in PageTemplates, status_code \in PageStatusCodes,
          result \in HandlerResults, now \in Timestamps :
          Produce(Wrap(func, template_file, status_code, NewRequest(headers), result, now),
                  TRUE)
    /\ UNCHANGED <<webpage_context, pre_context, default_context, accumulated, url>>

\* a request routed to a decorated handler that is called without the keyword
\* request; the failure is dispatched for the request being served
PageWithoutRequest ==
    /\ ~Raised
    /\ \E headers \in PageRequestHeaders, func \in HandlerNames :
          Produce(WrapNoRequest(func, NewRequest(headers)), TRUE)
    /\ UNCHANGED <<webpage_context, pre_context, default_context, accumulated, url>>

\* a route that is not decorated fails on its own
RouteFails ==
    /\ ~Raised
    /\ \E headers \in RequestHeaders, exc \in RouteExceptions :
          Produce([NoResp EXCEPT !.op = "route", !.request = NewRequest(headers),
                                 !.outcome = "raise", !.exc = exc], TRUE)
    /\ UNCHANGED <<webpage_context, pre_context, default_context, accumulated, url>>

-----------------------------------------------------------------------------
(* register_error_handlers: the three handlers *)

JSONResponse(op, request, exc, status_code, content) ==
    [NoResp EXCEPT !.op = op, !.request = request, !.exc = exc,
                   !.outcome = "JSONResponse", !.status_code = status_code,
                   !.content = content]

\* jsonable_encoder(exc.errors()) and str(exc) of a RequestValidationError
JsonableErrors(exc) == [k |-> "jsonable_encoder(errors)", v |-> exc.detail.v]
StrOfException(exc) == [k |-> "str(exc)", v |-> exc.detail.v]

\* a test that takes only the exact media type for JSON
WantsJsonExact(request) ==
    HeadersGet(request.headers, "accept", s_empty) = s_application_json

\* "application/json" in accept, with accept = request.headers.get("accept", "")
WantsJson(request) ==
    Contains(s_application_json, HeadersGet(request.headers, "accept", s_empty))

\* the error page: webpage(template_file=error_templ_file, request=request,
\* context={"status_code": ..., "detail": ...}, status_code=...)
ErrorPage(op, request, exc, status_code, detail) ==
    [Call(op, error_templ_file, request, "own",
          [x \in {"status_code", "detail"} |->
              IF x = "status_code" THEN PyInt(status_code) ELSE detail],
          Entry("status_code", PyInt(status_code)))
     EXCEPT !.exc = exc]

HttpExceptionResponse(request, exc) ==
    IF WantsJson(request)
    THEN JSONResponse("http_exception_handler", request, exc, exc.status_code,
                      Entry("detail", exc.detail))
    ELSE ErrorPage("http_exception_handler", request, exc, exc.status_code, exc.detail)

ValidationExceptionResponse(request, exc) ==
    IF WantsJson(request)
    THEN JSONResponse("validation_exception_handler", request, exc,
                      HTTP_422_UNPROCESSABLE_ENTITY, Entry("detail", JsonableErrors(exc)))
    ELSE ErrorPage("validation_exception_handler", request, exc,
                   HTTP_422_UNPROCESSABLE_ENTITY, StrOfException(exc))

\* a handler that reports the exception's own message
GlobalExceptionResponseLeaky(request, exc) ==
    IF WantsJson(request)
    THEN JSONResponse("global_exception_handler", request, exc,
                      HTTP_500_INTERNAL_SERVER_ERROR, Entry("detail", exc.detail))
    ELSE ErrorPage("global_exception_handler", request, exc,
                   HTTP_500_INTERNAL_SERVER_ERROR, exc.detail)

GlobalExceptionResponse(request, exc) ==
    IF WantsJson(request)
    THEN JSONResponse("global_exception_handler", request, exc,
                      HTTP_500_INTERNAL_SERVER_ERROR,
                      Entry("detail", PyStr("Internal Server Error")))
    ELSE ErrorPage("global_exception_handler", request, exc,
                   HTTP_500_INTERNAL_SERVER_ERROR, PyStr("Internal Server Error"))

\* @app.exception_handler(StarletteHTTPException)
http_exception_handler ==
    /\ Raised
    /\ resp.exc.type = "HTTPException"
    /\ Produce([HttpExceptionResponse(resp.request, resp.exc) EXCEPT !.func = resp.func],
               FALSE)
    /\ UNCHANGED <<webpage_context, pre_context, default_context, accumulated, url>>

\* @app.exception_handler(RequestValidationError)
validation_exception_handler ==
    /\ Raised
    /\ resp.exc.type = "RequestValidationError"
    /\ Produce(ValidationExceptionResponse(resp.request, resp.exc), FALSE)
    /\ UNCHANGED <<webpage_context, pre_context, default_context, accumulated, url>>

\* @app.exception_handler(Exception)
global_exception_handler ==
    /\ Raised
    /\ resp.exc.type = "Exception"
    /\ Produce(GlobalExceptionResponse(resp.request, resp.exc), FALSE)
    /\ UNCHANGED <<webpage_context, pre_context, default_context, accumulated, url>>

-----------------------------------------------------------------------------
(* The running application *)

Next ==
    \/ \E value \in PrePatches : pre_context_update(value)
    \/ \E value \in SitePatches : webpage_context_update(value)
    \/ CallWithoutContext
    \/ CallWithContext
    \/ PageWithRequest
    \/ PageWithoutRequest
    \/ RouteFails
    \/ http_exception_handler
    \/ validation_exception_handler
    \/ global_exception_handler

Spec == Init /\ [][Next]_vars

-----------------------------------------------------------------------------
(* urlx_for *)

s_http == <<"h","t","t","p">>
s_https == <<"h","t","t","p","s">>
s_wss == <<"w","s","s">>
s_host == <<"h","o","s","t">>
s_example == <<"a",".","i","o",":","8","0","8","0">>

\* values of x-forwarded-proto a proxy may set, the empty value included
ForwardedProtos == {s_empty, s_http, s_https, s_wss}
UrlRequestHeaders ==
    {EmptyDict} \cup {Entry("x-forwarded-proto", v) : v \in ForwardedProtos}
\* scheme and host the application itself is reached at
BaseSchemes == {s_http, s_https}
BaseHosts == {s_host, s_example}
\* the routes of the application: name |-> path, "{id}" standing for a parameter
RoutePaths ==
    [name \in {"index", "item"} |->
        IF name = "index" THEN <<"/">> ELSE <<"/","i","t","e","m","s","/","{id}">>]
RouteNames == {"index", "item", "missing"}
PathParams == {EmptyDict, Entry("id", <<"7">>), Entry("id", <<"4","2">>)}

RECURSIVE Fill(_, _)
\* a route path with its parameters filled in
Fill(path, path_params) ==
    IF path = << >> THEN << >>
    ELSE (IF Head(path) = "{id}" THEN path_params["id"] ELSE <<Head(path)>>)
            \o Fill(Tail(path), path_params)

\* the parameters a route path names
ParamsOf(path) == IF \E i \in DOMAIN path : path[i] = "{id}" THEN {"id"} ELSE {}

NoMatchFound == [scheme |-> s_empty, netloc |-> s_empty, path |-> s_empty]

\* request.url_for(name, **path_params): the URL of the route on the base URL
\* of the request, NoMatchFound for an unknown name or the wrong parameters
RequestUrlFor(request, name, path_params) ==
    IF name \in DOMAIN RoutePaths /\ DOMAIN path_params = ParamsOf(RoutePaths[name])
    THEN [scheme |-> request.scheme, netloc |-> request.host,
          path |-> Fill(RoutePaths[name], path_params)]
    ELSE NoMatchFound

\* a replace that rebuilds the URL on the proxy's default host
UrlReplaceSchemeDropsPort(http_url, scheme) ==
    [http_url EXCEPT !.scheme = scheme, !.netloc = s_host]

\* URL.replace(scheme=scheme)
UrlReplaceScheme(http_url, scheme) == [http_url EXCEPT !.scheme = scheme]

\* str(URL)
UrlStr(u) == u.scheme \o <<":","/","/">> \o u.netloc \o u.path

\* urlx_for(context, name, **path_params) with request = context["request"];
\* headers.get returns None for an absent header, and "" is falsy as well
urlx_for(request, name, path_params) ==
    LET http_url == RequestUrlFor(request, name, path_params)
        scheme == HeadersGet(request.headers, "x-forwarded-proto", s_empty)
    IN  IF http_url = NoMatchFound THEN [outcome |-> "raise", url |-> NoMatchFound]
        ELSE IF scheme # s_empty
             THEN [outcome |-> "return", url |-> UrlReplaceScheme(http_url, scheme)]
             ELSE [outcome |-> "return", url |-> http_url]

\* a template is about to call url_for(name, **path_params)
InitUrl ==
    /\ \E global_context \in GlobalContexts :
          /\ WebPageInit(global_context)
          /\ accumulated = global_context
    /\ default_context = EmptyDict
    /\ next_id = 1
    /\ resp = NoResp
    /\ held = NoHeld
    /\ \E headers \in UrlRequestHeaders, scheme \in BaseSchemes, host \in BaseHosts,
          name \in RouteNames, path_params \in PathParams :
          url = [state |-> "called",
                 request |-> [headers |-> headers, scheme |-> scheme, host |-> host],
                 name |-> name, path_params |-> path_params]

UrlxFor ==
    /\ url.state = "called"
    /\ LET r == urlx_for(url.request, url.name, url.path_params) IN
          url' = [state |-> r.outcome, request |-> url.request, name |-> url.name,
                  path_params |-> url.path_params, out |-> r.url,
                  framework |-> RequestUrlFor(url.request, url.name, url.path_params)]
    /\ UNCHANGED <<webpage_context, pre_context, default_context, next_id, resp, held,
                   accumulated>>

NextUrl == UrlxFor

SpecUrl == InitUrl /\ [][NextUrl]_vars

-----------------------------------------------------------------------------
(* Properties *)

ErrorHandlers ==
    {"http_exception_handler", "validation_exception_handler", "global_exception_handler"}

\* the status the claim gives to a failure: s, 422 or 500
StatusOf(exc) ==
    CASE exc.type = "HTTPException" -> exc.status_code
      [] exc.type = "RequestValidationError" -> 422
      [] OTHER -> 500

\* the accept value of a request, the empty string when the header is absent
AcceptOf(request) ==
    IF "accept" \in DOMAIN request.headers THEN request.headers["accept"] ELSE << >>

\* the format and the status of an error response, as the claim states them
NegotiatedFormat ==
    /\ resp.outcome = "JSONResponse" <=> Contains(s_application_json, AcceptOf(resp.request))
    /\ resp.outcome # "JSONResponse" =>
          resp.outcome = "TemplateResponse" /\ resp.template = "error.jinja2"
    /\ resp.status_code = StatusOf(resp.exc)
    /\ resp.outcome = "JSONResponse" /\ resp.exc.type = "HTTPException" =>
          resp.content = Entry("detail", resp.exc.detail)

\* C1 as stated: every failure is answered in JSON exactly when accept contains
\* "application/json" and otherwise by the error template, with status s / 422 /
\* 500, and for an HTTP exception the detail d is in the JSON body and the HTML
\* render context holds status_code = s and detail = d
C1_AsStated ==
    resp.op \in ErrorHandlers =>
        /\ NegotiatedFormat
        /\ resp.outcome = "TemplateResponse" /\ resp.exc.type = "HTTPException" =>
              /\ resp.context["status_code"] = PyInt(resp.exc.status_code)
              /\ resp.context["detail"] = resp.exc.detail

\* C1 amended: as stated, except that in the HTML render context status_code and
\* detail hold s and d only when PreContext has no key of that name; a key that
\* PreContext holds shows PreContext's value
C1_Negotiation ==
    resp.op \in ErrorHandlers =>
        /\ NegotiatedFormat
        /\ resp.outcome = "TemplateResponse" /\ resp.exc.type = "HTTPException" =>
              /\ resp.base = [x \in {"status_code", "detail"} |->
                                 IF x = "detail" THEN resp.exc.detail
                                 ELSE PyInt(resp.exc.status_code)]
              /\ \A key \in {"status_code", "detail"} :
                    resp.context[key] =
                        IF key \in DOMAIN pre_context THEN pre_context[key]
                        ELSE resp.base[key]

C1_Witness ==
    /\ resp.op = "http_exception_handler"
    /\ resp.exc.status_code = 404
    /\ resp.outcome = "TemplateResponse"
    /\ AcceptOf(resp.request) = s_text_html
    /\ "detail" \in DOMAIN pre_context

\* the response without the record of the exception that was handled
Visible(r) == [r EXCEPT !.exc = NoExc]

\* no value of the response's body or render context is the exception's message,
\* and the response is the one any other unexpected exception gets
NoInterference ==
    /\ \A key \in DOMAIN resp.content : resp.content[key] # resp.exc.detail
    /\ \A key \in DOMAIN resp.context : resp.context[key] # resp.exc.detail
    /\ \A other \in {e \in RouteExceptions : e.type = "Exception"} :
          Visible(resp) = Visible(GlobalExceptionResponse(resp.request, other))

\* C2 as stated: an unexpected exception gets status 500 and the literal detail
\* "Internal Server Error" in the JSON body or in the HTML render context,
\* whatever its message
C2_AsStated ==
    resp.op = "global_exception_handler" =>
        /\ resp.status_code = 500
        /\ resp.outcome = "JSONResponse" =>
              resp.content = Entry("detail", PyStr("Internal Server Error"))
        /\ resp.outcome = "TemplateResponse" =>
              resp.context["detail"] = PyStr("Internal Server Error")
        /\ NoInterference

\* C2 amended: as stated, except that the HTML render context shows the literal
\* detail only when PreContext holds no detail key (it shows PreContext's value
\* otherwise); the context handed to render always has the literal
C2_NoLeak ==
    resp.op = "global_exception_handler" =>
        /\ resp.status_code = 500
        /\ resp.outcome = "JSONResponse" =>
              resp.content = Entry("detail", PyStr("Internal Server Error"))
        /\ resp.outcome = "TemplateResponse" =>
              /\ resp.base["detail"] = PyStr("Internal Server Error")
              /\ resp.context["detail"] =
                    IF "detail" \in DOMAIN pre_context THEN pre_context["detail"]
                    ELSE PyStr("Internal Server Error")
        /\ NoInterference

C2_Witness ==
    /\ resp.op = "global_exception_handler"
    /\ resp.exc.detail = PyStr("boom")
    /\ resp.outcome = "TemplateResponse"
    /\ "detail" \notin DOMAIN pre_context

\* C3 as stated: a contract violation of a wrapped handler reaches the client as
\* a 5xx response whose JSON body and HTML context do not hold the diagnostic
\* detail (the handler's name and code)
C3_AsStated ==
    resp.op = "http_exception_handler" /\ resp.exc.origin = "wrap" =>
        /\ resp.status_code \in 500..599
        /\ \A key \in DOMAIN resp.content : resp.content[key].k # "error_msgs"
        /\ \A key \in DOMAIN resp.context : resp.context[key].k # "error_msgs"


\* a render by the direct call (an error page is one) or by the wrap adapter;
\* resp.base is the caller's or the handler's context
Rendered == resp.outcome = "TemplateResponse"
DirectRender == Rendered /\ resp.op # "page"
WrapRender == Rendered /\ resp.op = "page"

\* C4 as stated: in the direct render call and in the wrap adapter, every key
\* that the caller's context and PreContext both hold has PreContext's value in
\* the RenderContext, the reserved names request and webpage included
C4_AsStated ==
    Rendered =>
        \A key \in DOMAIN resp.base \cap DOMAIN pre_context :
            resp.context[key] = pre_context[key]

\* C4 amended: PreContext wins for every common key in the wrap adapter, and
\* for every common key but webpage in the direct render call, where the
\* webpage key is the SiteContext whatever PreContext holds
C4_Precedence ==
    /\ WrapRender =>
          \A key \in DOMAIN resp.base \cap DOMAIN pre_context :
              resp.context[key] = pre_context[key]
    /\ DirectRender =>
          /\ \A key \in (DOMAIN resp.base \cap DOMAIN pre_context) \ {"webpage"} :
                resp.context[key] = pre_context[key]
          /\ resp.context["webpage"] = WebpageContextRef

C4_Witness ==
    /\ resp.op = "__call__"
    /\ Rendered
    /\ {"webpage", "request", "detail"} \subseteq DOMAIN resp.base \cap DOMAIN pre_context

\* C5 as stated: in both forms the RenderContext's request key is the injected
\* request and its webpage key is the SiteContext, whatever the caller's
\* context, PreContext and SiteContext hold; a caller's value never survives
C5_AsStated ==
    Rendered =>
        /\ resp.context["request"] = RequestObj(resp.request.id)
        /\ resp.context["webpage"] = WebpageContextRef
        /\ \A key \in {"request", "webpage"} \cap DOMAIN resp.base :
              resp.context[key] # resp.base[key]

\* C5 amended: the request key is the injected request unless PreContext holds
\* a request key, and then it is PreContext's value; the webpage key is the
\* SiteContext in the direct render call, and in the wrap adapter unless
\* PreContext holds a webpage key; the caller's value for either key is always
\* overwritten
C5_ReservedKeys ==
    Rendered =>
        /\ resp.context["request"] =
              IF "request" \in DOMAIN pre_context THEN pre_context["request"]
              ELSE RequestObj(resp.request.id)
        /\ resp.context["webpage"] =
              IF WrapRender /\ "webpage" \in DOMAIN pre_context
              THEN pre_context["webpage"] ELSE WebpageContextRef
        /\ \A key \in {"request", "webpage"} \cap DOMAIN resp.base :
              resp.op \in {"__call__", "page"} /\ resp.arg # PyNone =>
                  resp.context[key] # resp.base[key]

C5_Witness ==
    /\ WrapRender
    /\ {"request", "webpage"} \subseteq DOMAIN resp.base
    /\ "request" \notin DOMAIN pre_context
    /\ resp.context["request"] = RequestObj(resp.request.id)

\* C6: a direct render with an empty caller context, after any updates, has as
\* its webpage key the SiteContext, which is the constructor's keywords merged
\* left to right with every accepted SiteContext patch
C6_SiteContextAccumulates ==
    resp.op = "__call__" /\ resp.arg \in {PyNone, PyDict(EmptyDict)} =>
        /\ resp.context["webpage"] = WebpageContextRef
        /\ webpage_context = accumulated

C6_Witness ==
    /\ resp.op = "__call__"
    /\ resp.arg = PyNone
    /\ "webpage" \in DOMAIN pre_context
    /\ accumulated = [x \in {"title", "theme"} |->
                         IF x = "title" THEN PyStr("sv2") ELSE PyStr("sv1")]

\* C7: wrap returns a Response result unchanged without merging or rendering,
\* renders a dict, fails with HTTPException 500 on any other result, and fails
\* with HTTPException 500 when no request is among the keyword inputs
C7_WrapOutcome ==
    resp.op = "page" =>
        CASE resp.arg = PyStr("no request") ->
                /\ resp.outcome = "raise"
                /\ resp.exc.type = "HTTPException" /\ resp.exc.status_code = 500
          [] resp.arg.k = "Response" ->
                /\ resp.outcome = "passthrough"
                /\ resp.content = Entry("response", resp.arg)
                /\ resp.context = EmptyDict /\ resp.template = ""
          [] resp.arg.k = "dict" ->
                /\ resp.outcome = "TemplateResponse"
                /\ resp.template \in PageTemplates
          [] OTHER ->
                /\ resp.outcome = "raise"
                /\ resp.exc.type = "HTTPException" /\ resp.exc.status_code = 500

C7_Witness ==
    /\ resp.op = "page"
    /\ resp.arg = PyList(1)
    /\ resp.outcome = "raise"

\* the text of a URL after its scheme
AfterScheme(u) == SubSeq(UrlStr(u), Len(u.scheme) + 1, Len(UrlStr(u)))

C9_AsStated ==
    [][ (webpage_context' # webpage_context \/ pre_context' # pre_context
            \/ default_context' # default_context)
        => /\ resp'.op \in {"pre_context_update", "webpage_context_update"}
           /\ resp'.outcome = "return" ]_vars

\* C10 as stated: no two renders build their RenderContext in the same mapping,
\* and a render starts from nothing another request wrote
C10_AsStated ==
    Rendered =>
        /\ ~(held = "default" /\ resp.context_obj = "default")
        /\ resp.op = "__call__" /\ resp.arg = PyNone => resp.base = EmptyDict

====
